---- MODULE Spec2Model ----
(***************************************************************************)
(* Job queue and status-tracking core of src/app.py: the shared registry   *)
(* (download_queue, download_status, paused_jobs), the HTTP handlers that  *)
(* mutate it under queue_lock, and the single background worker            *)
(* (process_queue / download_video / ProgressHook.hook).                   *)
(*                                                                         *)
(* Granularity: one step per `with queue_lock` / `with rate_limit_lock`    *)
(* block and per return of an Extraction Engine call.  Every HTTP handler  *)
(* whose body is one `with queue_lock` block is one atomic action.         *)
(* Python values: a queue entry is a tuple of length 3 or 4, exactly as    *)
(* the code appends it; None is the empty sequence << >> and a present     *)
(* optional value v is << v >>.                                            *)
(*                                                                         *)
(* Kept of a download_status entry: status, progress, error, url, quality, *)
(* client_ip, added_at.  The fields no handler or worker branch of this    *)
(* module reads (title, filename, speed, the other timestamps, source_url) *)
(* are left out.  Of a download_history entry job_id, status and file_size  *)
(* are kept.  Of a file in DOWNLOADS_DIR cleanup_old_files sees whether    *)
(* its name ends in .part, its st_mtime, its st_size and whether           *)
(* os.remove raises for it.                                                *)
(*                                                                         *)
(* The scope of queue_lock is modelled a second time, operation by         *)
(* operation (lock_ops, L_acquire, L_release, L_call), for the threads     *)
(* that share the lock.                                                    *)
(***************************************************************************)
(* A run is made in one of the environments of Env: the client requests    *)
(* and the Extraction Engine outcomes that can occur in it.                *)
(***************************************************************************)
EXTENDS Integers, Sequences, FiniteSets, TLC

\* ----------------------------------------------------------------- bounds
\* number of job ids (uuid4 values) the model hands out
MaxJobs == 2
\* longest playlist_videos list of one POST /download
MaxPlaylist == 2
\* number of request threads inside POST /download at once
MaxHandlers == 2
\* number of files in DOWNLOADS_DIR when a cleanup run starts
MaxFiles == 3

\* ------------------------------------------------------- program constants
\* MAX_DOWNLOADS_PER_HOUR = int(os.environ.get('MAX_DOWNLOADS_PER_HOUR', '10')):
\* the deployment value the model is run with
MAX_DOWNLOADS_PER_HOUR == 2
\* MAX_CONCURRENT_DOWNLOADS, default 3
MAX_CONCURRENT_DOWNLOADS == 3
\* MAX_FILE_SIZE_BYTES in GB units (MAX_FILE_SIZE_GB default 2.0)
MAX_FILE_SIZE_GB == 2
\* cleanup: maximum age in units of the model clock, storage budget in GB
FILE_MAX_AGE_HOURS == 1
MAX_STORAGE_GB == 2
\* length of a video identifier
VideoIdLen == 11

Qualities == {"best"}

\* client_priority = ['web', 'ios', 'android', 'tv']
client_priority == <<"web", "ios", "android", "tv">>

\* ------------------------------------------------------------------- URLs
\* A URL is what urlparse/parse_qs see of it: scheme, netloc, the path as a
\* fixed prefix plus an identifier segment (pid), and the query parameters v
\* and list.  Identifiers are character sequences so that the length and
\* charset tests are computed; << >> and "" mean "absent".  The list parameter
\* is the sequence of the characters of its value as written in the query,
\* "%26" standing for that escape; a "&" in it ends the value.
IdChars == {"A", "b", "7", "_", "-"}
DangerousChars == {"<", ">"}

Rep(c, n) == [i \in 1..n |-> c]

GoodId == Rep("A", VideoIdLen)
GoodId2 == Rep("b", VideoIdLen - 1) \o <<"-">>
ShortId == Rep("A", 5)
BadCharId == Rep("A", VideoIdLen - 1) \o <<"!">>
\* 12 characters, 11 after sanitize_input removes '<'
DirtyId == <<"<">> \o GoodId

MkUrl(s, h, p, pid, v, l) ==
    [scheme |-> s, netloc |-> h, path |-> p, pid |-> pid, v |-> v, list |-> l]

\* the empty string ''
EmptyUrl == MkUrl("", "", "", << >>, << >>, << >>)

\* netlocs with 'youtube.com' / 'youtu.be' as a substring
HasYoutubeCom(h) == h \in {"www.youtube.com", "youtube.com", "m.youtube.com"}
HasYoutuBe(h) == h \in {"youtu.be"}

\* parsed.path.lstrip('/') for the fixed path prefixes of the model
LstripSlash(p) ==
    CASE p = "/" -> << >>
      [] p = "/watch" -> <<"w", "a", "t", "c", "h">>
      [] p = "/playlist" -> <<"p", "l", "a", "y", "l", "i", "s", "t">>
      [] p = "/embed/" -> <<"e", "m", "b", "e", "d", "/">>
      [] p = "/v/" -> <<"v", "/">>
      [] OTHER -> << >>

\* re.match(r'^[a-zA-Z0-9_-]{11}$', video_id) and len(video_id) == 11
IsVideoId(id) ==
    /\ Len(id) = VideoIdLen
    /\ \A i \in 1..Len(id) : id[i] \in IdChars

\* sanitize_input on a URL: drops < > " ' and control characters; the string
\* that is left may be empty
sanitize_input(u) ==
    LET keep(c) == c \notin DangerousChars
    IN [u EXCEPT !.pid = SelectSeq(@, keep), !.v = SelectSeq(@, keep)]

\* parse_qs(parsed.query)['list'][0]: the value up to the next "&", with its
\* escapes decoded; << >> when the key is absent or its value blank
RECURSIVE parse_qs_list(_)
parse_qs_list(raw) ==
    IF raw = << >> \/ Head(raw) = "&" THEN << >>
    ELSE <<IF Head(raw) = "%26" THEN "&" ELSE Head(raw)>> \o parse_qs_list(Tail(raw))

\* validate_youtube_url(url) -> (is_valid, video_id, is_playlist, normalized_url)
Invalid == [is_valid |-> FALSE, video_id |-> << >>, is_playlist |-> FALSE,
            normalized_url |-> EmptyUrl]

validate_youtube_url(url) ==
    IF url = EmptyUrl THEN Invalid
    ELSE IF url.scheme \notin {"http", "https"} THEN Invalid
    ELSE IF ~HasYoutubeCom(url.netloc) /\ ~HasYoutuBe(url.netloc) THEN Invalid
    ELSE IF HasYoutuBe(url.netloc) THEN
        LET video_id == LstripSlash(url.path) \o url.pid
        IN IF ~IsVideoId(video_id) THEN Invalid
           ELSE [is_valid |-> TRUE, video_id |-> video_id, is_playlist |-> FALSE,
                 normalized_url |->
                    MkUrl("https", "www.youtube.com", "/watch", << >>, video_id, << >>)]
    ELSE
        LET playlist_id == parse_qs_list(url.list)
            is_playlist == playlist_id # << >>
            video_id == IF url.v # << >> THEN url.v
                        ELSE IF url.path \in {"/embed/", "/v/"} THEN url.pid
                        ELSE << >>
        IN IF video_id # << >> /\ ~IsVideoId(video_id) THEN Invalid
           ELSE IF is_playlist THEN
                [is_valid |-> TRUE, video_id |-> video_id, is_playlist |-> TRUE,
                 normalized_url |->
                    IF video_id # << >>
                    THEN MkUrl("https", "www.youtube.com", "/watch", << >>,
                               video_id, playlist_id)
                    ELSE MkUrl("https", "www.youtube.com", "/playlist", << >>,
                               << >>, playlist_id)]
           ELSE IF video_id # << >> THEN
                [is_valid |-> TRUE, video_id |-> video_id, is_playlist |-> FALSE,
                 normalized_url |->
                    MkUrl("https", "www.youtube.com", "/watch", << >>, video_id, << >>)]
           ELSE Invalid

\* normalize_youtube_url(url): the normalized URL, or the raw url as fallback
normalize_youtube_url(url) ==
    LET r == validate_youtube_url(url)
    IN IF r.is_valid THEN r.normalized_url ELSE url

\* URLs a client posts as `url`
CanonicalUrl == MkUrl("https", "www.youtube.com", "/watch", << >>, GoodId, << >>)
ShortUrl == MkUrl("https", "youtu.be", "/", GoodId2, << >>, << >>)
WrongDomainUrl == MkUrl("https", "example.com", "/watch", << >>, GoodId, << >>)
BadIdUrl == MkUrl("https", "www.youtube.com", "/watch", << >>, ShortId, << >>)
BadCharUrl == MkUrl("https", "youtu.be", "/", BadCharId, << >>, << >>)
\* a '<' inside the identifier, which sanitize_input removes
DirtyUrl == MkUrl("https", "www.youtube.com", "/watch", << >>, DirtyId, << >>)
EmbedUrl == MkUrl("http", "m.youtube.com", "/embed/", GoodId, << >>, << >>)
PlaylistUrl == MkUrl("https", "www.youtube.com", "/playlist", << >>, << >>,
                     <<"P", "L", "1">>)
WatchListUrl == MkUrl("https", "youtube.com", "/watch", << >>, GoodId, <<"P", "L", "1">>)
\* ...playlist?list=PL%26x
EscapedListUrl == MkUrl("https", "www.youtube.com", "/playlist", << >>, << >>,
                        <<"P", "L", "%26", "x">>)
FtpUrl == MkUrl("ftp", "www.youtube.com", "/watch", << >>, GoodId, << >>)

\* ----------------------------------------------------------- environments
\* What the clients and the Extraction Engine can produce in one run.
\* An error message is the set of the phrases the handlers look for in it.
MsgPrivate == {"private video"}
MsgForbidden == {"403"}
MsgNetwork == {"network"}
\* 'Download completed but file not found', a TypeError, ...
\* str(e) of the error print raises on a closed stdout
MsgClosed == "I/O operation on closed file"
MsgPlain == {}


\* the dicts yt-dlp passes to ProgressHook.hook
HookTenth == [status |-> "downloading", total_bytes |-> 1000, downloaded_bytes |-> 100, speed |-> 0]
HookSmall == [status |-> "downloading", total_bytes |-> 1000, downloaded_bytes |-> 50, speed |-> 0]
HookHalf == [status |-> "downloading", total_bytes |-> 1000, downloaded_bytes |-> 500, speed |-> 0]
HookFinished == [status |-> "finished", total_bytes |-> 0, downloaded_bytes |-> 0, speed |-> 0]


\* Registry environment: MaxJobs jobs of one client; an engine whose calls
\* succeed or raise a retryable DownloadError, with one progress callback.
RegistryEnv ==
    [jobs |-> 1..MaxJobs,
     owners |-> {"10.0.0.1"},
     submit_urls |-> {ShortUrl, WrongDomainUrl},
     playlist_urls |-> {ShortUrl},
     setup_ok |-> {TRUE},
     download_errors |-> {MsgForbidden},
     other_exceptions |-> {},
     print_errors |-> {},
     file_sizes |-> {1},
     file_lost |-> FALSE,
     hook_events |-> {HookTenth},
     max_history |-> 0]

\* Engine environment: every outcome of the setup, of extract_info, of
\* ydl.download and of the file lookup, for MaxJobs - 1 jobs.
EngineEnv ==
    [jobs |-> 1..(MaxJobs - 1),
     owners |-> {"10.0.0.1"},
     submit_urls |-> {ShortUrl, WrongDomainUrl},
     playlist_urls |-> {ShortUrl},
     setup_ok |-> BOOLEAN,
     download_errors |-> {MsgPrivate, MsgForbidden, MsgNetwork},
     other_exceptions |-> {MsgPlain},
     print_errors |-> {MsgClosed},
     file_sizes |-> {1, 5},
     file_lost |-> TRUE,
     hook_events |-> {HookSmall, HookHalf, HookFinished},
     max_history |-> 0]

\* URL environment: every URL form as `url` and as a playlist_videos element,
\* for MaxJobs - 1 jobs.
AllUrls == {CanonicalUrl, ShortUrl, WrongDomainUrl, BadIdUrl, BadCharUrl, DirtyUrl,
            EmbedUrl, PlaylistUrl, WatchListUrl, EscapedListUrl, FtpUrl}

UrlEnv ==
    [jobs |-> 1..(MaxJobs - 1),
     owners |-> {"10.0.0.1"},
     submit_urls |-> AllUrls,
     playlist_urls |-> AllUrls,
     setup_ok |-> {TRUE},
     download_errors |-> {MsgForbidden},
     other_exceptions |-> {},
     print_errors |-> {},
     file_sizes |-> {1},
     file_lost |-> FALSE,
     hook_events |-> {HookTenth},
     max_history |-> 0]

\* Submit environment: MaxHandlers request threads inside POST /download at
\* once, with one job id more than one client may have in a counting window.
SubmitEnv ==
    [jobs |-> 1..(MAX_DOWNLOADS_PER_HOUR + 1),
     owners |-> {"10.0.0.1", "10.0.0.2"},
     submit_urls |-> {ShortUrl, WrongDomainUrl},
     playlist_urls |-> {ShortUrl},
     setup_ok |-> {TRUE},
     download_errors |-> {MsgForbidden},
     other_exceptions |-> {},
     print_errors |-> {},
     file_sizes |-> {1},
     file_lost |-> FALSE,
     hook_events |-> {HookTenth},
     max_history |-> 0]

\* Worker environment: MaxJobs jobs of one client, an engine whose calls also
\* raise errors other than DownloadError, and a stdout on which print fails.
WorkerEnv ==
    [jobs |-> 1..MaxJobs,
     owners |-> {"10.0.0.1"},
     submit_urls |-> {ShortUrl},
     playlist_urls |-> {ShortUrl},
     setup_ok |-> {TRUE},
     download_errors |-> {MsgForbidden},
     other_exceptions |-> {MsgPlain},
     print_errors |-> {MsgClosed},
     file_sizes |-> {1},
     file_lost |-> FALSE,
     hook_events |-> {HookTenth},
     max_history |-> 0]

\* ------------------------------------------------------------------ state
VARIABLES
    download_queue,        \* list of (job_id, url, quality[, client_ip]) tuples
    download_status,       \* dict job_id -> job record
    paused_jobs,           \* set of job ids
    processing,            \* the worker's global flag
    download_counts,       \* dict client_ip -> [count, reset_time]
    concurrent_downloads,  \* dict client_ip -> int
    now,                   \* time.time(), in units of RATE_WINDOW / 2
    env,                   \* name of the environment of this run; set by Init,
                           \* never changed
    handlers,              \* the request threads inside POST /download, each
                           \* at one of the handler's lock blocks
    wpc,                   \* where the worker thread is
    job,                   \* the worker's claimed job (job_id, url, quality, client_ip)
    idx,                   \* index into client_priority of the current attempt
    last_error,            \* download_video's last_error
    err_class,             \* is_permanent / is_retryable of the DownloadError handler
    download_history,      \* list of the entries of finished runs, oldest first
    queue_lock,            \* the thread that holds queue_lock, or None
    lpc,                   \* thread -> index of its next lock operation (see
                           \* lock_ops)
    files,                 \* the files under the downloads directory: name ->
                           \* [part, mtime, size, locked]
    pause_ok               \* history: the jobs outside paused_jobs whose last
                           \* POST /pause returned success ("Already paused")
                           \* with no resume or resume_all of them since

registry == <<download_queue, download_status, paused_jobs>>
fixed == <<now, env, handlers, download_history, queue_lock, lpc, files>>
limits == <<download_counts, concurrent_downloads, fixed>>
worker == <<processing, wpc, job, idx, last_error, err_class>>
vars == <<download_queue, download_status, paused_jobs, processing,
          download_counts, concurrent_downloads, now, env, handlers,
          wpc, job, idx, last_error, err_class, download_history, queue_lock, lpc,
          files, pause_ok>>

\* History environment: MaxJobs + 1 jobs of two clients that finish completed,
\* failed on the size limit or failed on every persona, and a history log
\* that keeps the last two entries.
HistoryEnv ==
    [jobs |-> 1..(MaxJobs + 1),
     owners |-> {"10.0.0.1", "10.0.0.2"},
     submit_urls |-> {ShortUrl},
     playlist_urls |-> {ShortUrl},
     setup_ok |-> {TRUE},
     download_errors |-> {MsgForbidden},
     other_exceptions |-> {},
     print_errors |-> {},
     file_sizes |-> {1, 3},
     file_lost |-> FALSE,
     hook_events |-> {HookTenth},
     max_history |-> 2]

\* Rate environment: the job ids of two full counting windows, for one
\* client, while the clock advances.
RateEnv ==
    [jobs |-> 1..(2 * MAX_DOWNLOADS_PER_HOUR),
     owners |-> {"10.0.0.1"},
     submit_urls |-> {ShortUrl, WrongDomainUrl},
     playlist_urls |-> {ShortUrl},
     setup_ok |-> {TRUE},
     download_errors |-> {MsgForbidden},
     other_exceptions |-> {},
     print_errors |-> {},
     file_sizes |-> {1},
     file_lost |-> FALSE,
     hook_events |-> {HookTenth},
     max_history |-> 0]

\* the environment of this run
Env ==
    CASE env = "registry" -> RegistryEnv
      [] env = "engine" -> EngineEnv
      [] env = "urls" -> UrlEnv
      [] env = "submit" -> SubmitEnv
      [] env = "worker" -> WorkerEnv
      [] env = "history" -> HistoryEnv
      [] env = "rate" -> RateEnv

\* the cap of the history log (1000 in the source); the environments that do
\* not look at the log run with a cap of 0, which keeps it empty
MAX_HISTORY_SIZE == Env.max_history

None == << >>
Some(v) == <<v>>

\* the 3600 seconds of the counting window, in model time units
RATE_WINDOW == 2

\* the last instant of the clock
MaxTime == 4

\* A file of the downloads directory: whether its name ends in .part, its
\* st_mtime, its st_size (GB), and whether os.remove of it raises.  The walk
\* of os.walk visits the files in the order of their names.
FileRecs == [part : BOOLEAN, mtime : 1..MaxFiles, size : 1..2, locked : BOOLEAN]

\* the threads that take queue_lock: the worker, a title-fetch thread, and
\* request threads inside POST /pause and GET /status
Threads == {"process_queue", "extract_video_title", "pause_download", "get_status"}

\* a request thread outside the handler
Idle == [pc |-> "idle", client_ip |-> "", quality |-> "", is_playlist |-> FALSE,
         todo |-> << >>]

NoJob == [job_id |-> 0, url |-> EmptyUrl, quality |-> "", client_ip |-> None]

\* the state after the module is imported, in environment e
Start(e) ==
    /\ env = e
    /\ download_queue = << >>
    /\ download_status = << >>
    /\ paused_jobs = {}
    /\ processing = FALSE
    /\ download_counts = << >>
    /\ concurrent_downloads = << >>
    /\ now = 0
    /\ handlers = [h \in 1..MaxHandlers |-> Idle]
    /\ wpc = "poll"
    /\ job = NoJob
    /\ idx = 0
    /\ last_error = None
    /\ err_class = "none"
    /\ download_history = << >>
    /\ queue_lock = None
    /\ lpc = [t \in Threads |-> 1]
    /\ files \in IF e = "cleanup" THEN [1..MaxFiles -> FileRecs] ELSE {<< >>}
    /\ pause_ok = {}

\* ---------------------------------------------------------- list helpers
Known(j) == j \in DOMAIN download_status
QueueIds(q) == {q[i][1] : i \in 1..Len(q)}
InQueue(q, j) == j \in QueueIds(q)
RemoveJob(q, j) == SelectSeq(q, LAMBDA item : item[1] # j)
\* `for jid, url, qual in download_queue` raises ValueError at a tuple that
\* has not exactly three elements
Unpacks3(item) == Len(item) = 3
SetStatus(st, j, s) == [st EXCEPT ![j].status = s]

\* dict update d[k] = v, adding the key when it is missing
DictPut(d, k, v) == [x \in DOMAIN d \cup {k} |-> IF x = k THEN v ELSE d[x]]
\* d.get(k, default)
DictGet(d, k, default) == IF k \in DOMAIN d THEN d[k] ELSE default

\* ------------------------------------------------------ check_rate_limit
\* The dict after the window bookkeeping of check_rate_limit (entry created,
\* counter reset once the window has passed).
rate_window(counts, client_ip) ==
    LET c1 == IF client_ip \notin DOMAIN counts
              THEN DictPut(counts, client_ip,
                           [count |-> 0, reset_time |-> now + RATE_WINDOW])
              ELSE counts
    IN IF now >= c1[client_ip].reset_time
       THEN DictPut(c1, client_ip, [count |-> 0, reset_time |-> now + RATE_WINDOW])
       ELSE c1

\* check_rate_limit with the limit test off by one
check_rate_limit_off_by_one(counts, client_ip) ==
    /\ rate_window(counts, client_ip)[client_ip].count <= MAX_DOWNLOADS_PER_HOUR
    /\ DictGet(concurrent_downloads, client_ip, 0) < MAX_CONCURRENT_DOWNLOADS

\* check_rate_limit(client_ip) -> rate_ok, on the dict rate_window left
check_rate_limit(counts, client_ip) ==
    /\ rate_window(counts, client_ip)[client_ip].count < MAX_DOWNLOADS_PER_HOUR
    /\ DictGet(concurrent_downloads, client_ip, 0) < MAX_CONCURRENT_DOWNLOADS

\* download_counts[client_ip]['count'] += 1
count_up(counts, client_ip) ==
    LET c1 == IF client_ip \notin DOMAIN counts
              THEN DictPut(counts, client_ip,
                           [count |-> 0, reset_time |-> now + RATE_WINDOW])
              ELSE counts
    IN [c1 EXCEPT ![client_ip].count = @ + 1]

\* ------------------------------------------------------------ add_to_queue
\* str(uuid.uuid4()): an id no job has
JobIds == Env.jobs
FreeIds == JobIds \ DOMAIN download_status
\* a job record that starts out 'downloading'
NewJob_downloading(url, quality, client_ip) ==
    [status |-> "downloading", progress |-> 0, error |-> None, url |-> url,
     quality |-> quality, client_ip |-> client_ip, added_at |-> now]

NewJob(url, quality, client_ip) ==
    [status |-> "queued", progress |-> 0, error |-> None, url |-> url,
     quality |-> quality, client_ip |-> client_ip, added_at |-> now]

\* The playlist loop of add_to_queue over the (sanitized) video urls vs, from
\* the registry (q, st) and the counters cnt; ids are the uuids it draws.
RECURSIVE playlist_loop(_, _, _, _, _, _, _)
playlist_loop(vs, ids, q, st, cnt, quality, client_ip) ==
    IF vs = << >> THEN [q |-> q, st |-> st, cnt |-> cnt]
    ELSE
        LET video_url == Head(vs)
            normalized_video_url == normalize_youtube_url(video_url)
            job_id == Head(ids)
            cnt1 == rate_window(cnt, client_ip)
        IN IF ~check_rate_limit(cnt, client_ip)
           THEN [q |-> q, st |-> st, cnt |-> cnt1]
           ELSE playlist_loop(Tail(vs), Tail(ids),
                    Append(q, <<job_id, normalized_video_url, quality, client_ip>>),
                    DictPut(st, job_id, NewJob(video_url, quality, client_ip)),
                    count_up(cnt1, client_ip), quality, client_ip)

\* the ids uuid4 hands out, in order
RECURSIVE FreshIds(_, _)
FreshIds(free, n) ==
    IF n = 0 \/ free = {} THEN << >>
    ELSE LET j == CHOOSE x \in free : \A y \in free : x <= y
         IN <<j>> \o FreshIds(free \ {j}, n - 1)

PlaylistInputs ==
    UNION {[1..n -> Env.playlist_urls] : n \in 1..MaxPlaylist}

\* POST /download {url, quality, is_playlist, playlist_videos} from client_ip:
\* the HTTP status, the job ids of the response and the registry and counters
\* the handler leaves.  The handler's lock blocks (check_rate_limit, the count
\* increment, the append under queue_lock) are taken as one step.
add_to_queue_response(client_ip, raw_url) ==
    LET url == sanitize_input(raw_url)
    IN IF url = EmptyUrl \/ ~validate_youtube_url(url).is_valid THEN 400
       ELSE IF ~check_rate_limit(download_counts, client_ip) THEN 429
       ELSE 200

add_to_queue_outcome(client_ip, raw_url, quality, is_playlist, raw_videos) ==
    LET url == sanitize_input(raw_url)
        \* [sanitize_input(v) for v in playlist_videos if v]
        playlist_videos == [i \in 1..Len(raw_videos) |-> sanitize_input(raw_videos[i])]
        cnt1 == rate_window(download_counts, client_ip)
    IN
    IF add_to_queue_response(client_ip, raw_url) = 400
    THEN \* missing_url / invalid_url
         [code |-> 400, job_ids |-> << >>, q |-> download_queue,
          st |-> download_status, cnt |-> download_counts]
    ELSE IF add_to_queue_response(client_ip, raw_url) = 429
    THEN \* rate_limit_exceeded
         [code |-> 429, job_ids |-> << >>, q |-> download_queue,
          st |-> download_status, cnt |-> cnt1]
    ELSE IF is_playlist /\ playlist_videos # << >>
    THEN LET r == playlist_loop(playlist_videos,
                                FreshIds(FreeIds, Len(playlist_videos)),
                                download_queue, download_status, cnt1,
                                quality, client_ip)
         IN [code |-> 200,
             job_ids |-> [i \in 1..(Len(r.q) - Len(download_queue)) |->
                            r.q[Len(download_queue) + i][1]],
             q |-> r.q, st |-> r.st, cnt |-> r.cnt]
    ELSE LET job_id == Head(FreshIds(FreeIds, 1))
             normalized_url == normalize_youtube_url(url)
         IN [code |-> 200, job_ids |-> <<job_id>>,
             q |-> Append(download_queue, <<job_id, normalized_url, quality, client_ip>>),
             st |-> DictPut(download_status, job_id, NewJob(url, quality, client_ip)),
             cnt |-> count_up(cnt1, client_ip)]

add_to_queue(client_ip, raw_url, quality, is_playlist, raw_videos) ==
    LET r == add_to_queue_outcome(client_ip, raw_url, quality, is_playlist, raw_videos)
    IN /\ download_queue' = r.q
       /\ download_status' = r.st
       /\ download_counts' = r.cnt
       /\ UNCHANGED <<paused_jobs, fixed, concurrent_downloads, worker, pause_ok>>

SubmitSingle ==
    \E client_ip \in Env.owners, raw_url \in Env.submit_urls, quality \in Qualities :
        /\ FreeIds # {}
        /\ add_to_queue(client_ip, raw_url, quality, FALSE, << >>)

SubmitPlaylist ==
    \E client_ip \in Env.owners, raw_url \in Env.submit_urls, quality \in Qualities,
       raw_videos \in PlaylistInputs :
        /\ Len(raw_videos) <= Cardinality(FreeIds)
        /\ add_to_queue(client_ip, raw_url, quality, TRUE, raw_videos)

\* POST /download one lock block at a time, as the request threads of the
\* server run it.  H_check: the handler up to its check_rate_limit call.
Busy == {h \in 1..MaxHandlers : handlers[h].pc # "idle"}
RECURSIVE SumTodo(_)
SumTodo(hs) ==
    IF hs = {} THEN 0
    ELSE LET h == CHOOSE x \in hs : TRUE
         IN Len(handlers[h].todo) + SumTodo(hs \ {h})

H_check(h) ==
    \E client_ip \in Env.owners, raw_url \in Env.submit_urls, quality \in Qualities,
       s \in {<<FALSE, << >> >>} \cup {<<TRUE, vs>> : vs \in PlaylistInputs} :
        LET is_playlist == s[1]
            playlist_videos == [i \in 1..Len(s[2]) |-> sanitize_input(s[2][i])]
            todo == IF is_playlist /\ playlist_videos # << >>
                    THEN playlist_videos ELSE <<sanitize_input(raw_url)>>
            code == add_to_queue_response(client_ip, raw_url)
        IN /\ handlers[h].pc = "idle"
           /\ SumTodo(Busy) + Len(todo) <= Cardinality(FreeIds)
           /\ download_counts' = IF code = 400 THEN download_counts
                                 ELSE rate_window(download_counts, client_ip)
           /\ handlers' = IF code # 200 THEN handlers
                          ELSE [handlers EXCEPT ![h] =
                                  [pc |-> IF is_playlist /\ playlist_videos # << >>
                                          THEN "pl_check" ELSE "count",
                                   client_ip |-> client_ip, quality |-> quality,
                                   is_playlist |-> is_playlist /\ playlist_videos # << >>,
                                   todo |-> todo]]
           /\ UNCHANGED <<registry, concurrent_downloads, now, env, download_history,
                        queue_lock, lpc, files, worker,
                        pause_ok>>

\* the check_rate_limit call of the playlist loop; `break` ends the request
H_pl_check(h) ==
    LET r == handlers[h]
    IN /\ r.pc = "pl_check"
       /\ download_counts' = rate_window(download_counts, r.client_ip)
       /\ handlers' = [handlers EXCEPT ![h] =
                         IF check_rate_limit(download_counts, r.client_ip)
                         THEN [r EXCEPT !.pc = "count"] ELSE Idle]
       /\ UNCHANGED <<registry, concurrent_downloads, now, env, download_history,
                        queue_lock, lpc, files, worker,
                        pause_ok>>

\* the `with rate_limit_lock` block that counts the submission
H_count(h) ==
    LET r == handlers[h]
    IN /\ r.pc = "count"
       /\ download_counts' = count_up(download_counts, r.client_ip)
       /\ handlers' = [handlers EXCEPT ![h].pc = "append"]
       /\ UNCHANGED <<registry, concurrent_downloads, now, env, download_history,
                        queue_lock, lpc, files, worker,
                        pause_ok>>

\* the `with queue_lock` block that creates the job
H_append(h) ==
    LET r == handlers[h]
        url == Head(r.todo)
        job_id == Head(FreshIds(FreeIds, 1))
    IN /\ r.pc = "append"
       /\ download_queue' = Append(download_queue,
                                <<job_id, normalize_youtube_url(url), r.quality, r.client_ip>>)
       /\ download_status' = DictPut(download_status, job_id,
                                     NewJob(url, r.quality, r.client_ip))
       /\ handlers' = [handlers EXCEPT ![h] =
                         IF r.is_playlist /\ Tail(r.todo) # << >>
                         THEN [r EXCEPT !.pc = "pl_check", !.todo = Tail(r.todo)]
                         ELSE Idle]
       /\ UNCHANGED <<paused_jobs, download_counts, concurrent_downloads, now, env,
                      download_history, queue_lock, lpc, files,
                      worker, pause_ok>>

\* --------------------------------------------------------- pause / resume
Terminal == {"completed", "failed"}

\* HTTP status of POST /pause/<job_id> in the current state; 500 is the
\* ValueError of the 3-name unpacking of a 4-tuple queue entry
pause_response(job_id) ==
    IF ~Known(job_id) THEN 404
    ELSE IF download_status[job_id].status \in Terminal THEN 400
    ELSE IF download_status[job_id].status = "paused" THEN 200
    ELSE IF \E i \in 1..Len(download_queue) : ~Unpacks3(download_queue[i]) THEN 500
    ELSE 200

pause_download(job_id) ==
    /\ UNCHANGED <<limits, worker>>
    /\ pause_ok' = IF pause_response(job_id) = 200 /\ job_id \notin paused_jobs
                      /\ download_status[job_id].status = "paused"
                   THEN pause_ok \cup {job_id}
                   ELSE pause_ok
    /\ IF pause_response(job_id) = 200 /\ download_status[job_id].status # "paused"
       THEN /\ download_queue' = RemoveJob(download_queue, job_id)
            /\ paused_jobs' = paused_jobs \cup {job_id}
            /\ download_status' = SetStatus(download_status, job_id, "paused")
       ELSE UNCHANGED registry

\* any(jid == job_id for jid, _, _ in download_queue): "yes", "no", or
\* "error" when the scan meets a 4-tuple before it meets job_id
RECURSIVE already_in_queue3(_, _)
already_in_queue3(q, job_id) ==
    IF q = << >> THEN "no"
    ELSE IF ~Unpacks3(Head(q)) THEN "error"
    ELSE IF Head(q)[1] = job_id THEN "yes"
    ELSE already_in_queue3(Tail(q), job_id)

\* download_status[job_id].get('url') or download_status[job_id].get('source_url').
\* Every job of the model has a non-empty 'url', so 'source_url' (written by
\* the worker after extract_info) is never read and is not part of the state.
resume_url(st) == st.url

resume_response(job_id) ==
    IF ~Known(job_id) THEN 404
    ELSE IF job_id \notin paused_jobs THEN 400
    ELSE IF download_status[job_id].status = "completed" THEN 400
    ELSE IF already_in_queue3(download_queue, job_id) = "error" THEN 500
    ELSE IF already_in_queue3(download_queue, job_id) = "yes" THEN 200
    ELSE IF resume_url(download_status[job_id]) = EmptyUrl THEN 400
    ELSE 200

resume_download(job_id) ==
    /\ UNCHANGED <<limits, worker>>
    /\ IF ~Known(job_id) \/ job_id \notin paused_jobs
          \/ download_status[job_id].status = "completed"
          \/ already_in_queue3(download_queue, job_id) = "error"
       THEN UNCHANGED <<registry, pause_ok>>
       ELSE
         /\ paused_jobs' = paused_jobs \ {job_id}
         /\ pause_ok' = pause_ok \ {job_id}
         /\ IF already_in_queue3(download_queue, job_id) = "yes"
            THEN /\ download_status' = SetStatus(download_status, job_id, "queued")
                 /\ UNCHANGED download_queue
            ELSE LET st == download_status[job_id]
                     url == resume_url(st)
                 IN IF url = EmptyUrl
                    THEN UNCHANGED <<download_queue, download_status>>
                    ELSE /\ download_queue' =
                              Append(download_queue,
                                     <<job_id, normalize_youtube_url(url), st.quality>>)
                         /\ download_status' = SetStatus(download_status, job_id, "queued")

\* ------------------------------------------------------------- pause_all
\* index of the first queue entry the 3-name unpacking fails on, or Len + 1
RECURSIVE FirstBad(_, _)
FirstBad(q, i) ==
    IF i > Len(q) THEN i
    ELSE IF ~Unpacks3(q[i]) THEN i
    ELSE FirstBad(q, i + 1)

pause_all_response == IF FirstBad(download_queue, 1) <= Len(download_queue) THEN 500 ELSE 200

pause_all_downloads ==
    LET k == FirstBad(download_queue, 1)
        \* first loop: the queue entries reached before the unpacking fails
        A == {j \in {download_queue[i][1] : i \in 1..(k - 1)} :
                 /\ Known(j)
                 /\ download_status[j].status \notin {"completed", "failed", "paused"}}
        st1 == [j \in DOMAIN download_status |->
                   IF j \in A THEN [download_status[j] EXCEPT !.status = "paused"]
                   ELSE download_status[j]]
        p1 == paused_jobs \cup A
        \* second loop: downloading jobs
        B == {j \in DOMAIN st1 : st1[j].status = "downloading" /\ j \notin p1}
        st2 == [j \in DOMAIN st1 |->
                   IF j \in B THEN [st1[j] EXCEPT !.status = "paused"] ELSE st1[j]]
        p2 == p1 \cup B
    IN
    /\ UNCHANGED <<limits, worker>>
    /\ IF k <= Len(download_queue)
       THEN \* ValueError inside the first loop: what it did so far stays
            /\ paused_jobs' = p1
            /\ download_status' = st1
            /\ pause_ok' = pause_ok \ p1
            /\ UNCHANGED download_queue
       ELSE /\ paused_jobs' = p2
            /\ download_status' = st2
            /\ download_queue' = SelectSeq(download_queue, LAMBDA item : item[1] \notin p2)
            /\ pause_ok' = pause_ok \ p2

\* ------------------------------------------------------------ resume_all
\* the orders in which `for job_id in list(paused_jobs)` can visit a set
Orders(S) == {f \in [1..Cardinality(S) -> S] : \A a, b \in DOMAIN f : f[a] = f[b] => a = b}

RECURSIVE resume_all_loop(_, _, _, _)
resume_all_loop(order, q, st, paused) ==
    IF order = << >> THEN [q |-> q, st |-> st, paused |-> paused]
    ELSE
        LET job_id == Head(order)
        IN IF ~(job_id \in DOMAIN st /\ st[job_id].status = "paused")
           THEN resume_all_loop(Tail(order), q, st, paused)
           ELSE
             LET url == resume_url(st[job_id])
                 add == ~InQueue(q, job_id) /\ url # EmptyUrl
                 q1 == IF add
                       THEN Append(q, <<job_id, normalize_youtube_url(url),
                                        st[job_id].quality, st[job_id].client_ip>>)
                       ELSE q
                 st1 == IF add THEN SetStatus(st, job_id, "queued") ELSE st
             IN resume_all_loop(Tail(order), q1, st1, paused \ {job_id})

resume_all_downloads ==
    \E order \in Orders(paused_jobs) :
        LET r == resume_all_loop(order, download_queue, download_status, paused_jobs)
        IN /\ download_queue' = r.q
           /\ download_status' = r.st
           /\ paused_jobs' = r.paused
           /\ pause_ok' = pause_ok \ (paused_jobs \ r.paused)
           /\ UNCHANGED <<limits, worker>>

\* ------------------------------------------------------------ prioritize
Directions == {"up", "down", "sideways"}

queue_index(q, job_id) ==
    IF InQueue(q, job_id)
    THEN CHOOSE i \in 1..Len(q) : q[i][1] = job_id /\ \A k \in 1..(i - 1) : q[k][1] # job_id
    ELSE 0

\* an exchange that writes only one of the two slots
Swap_one_slot(q, a, b) == [q EXCEPT ![a] = q[b]]

Swap(q, a, b) == [q EXCEPT ![a] = q[b], ![b] = q[a]]

prioritize_response(job_id, direction) ==
    LET i == queue_index(download_queue, job_id)
    IN IF ~Known(job_id) THEN 404
       ELSE IF i = 0 THEN 400
       ELSE IF direction = "up" THEN (IF i > 1 THEN 200 ELSE 400)
       ELSE IF direction = "down" THEN (IF i < Len(download_queue) THEN 200 ELSE 400)
       ELSE 400

\* download_queue as POST /prioritize/<job_id>/<direction> leaves it
prioritize_outcome(job_id, direction) ==
    LET i == queue_index(download_queue, job_id)
    IN IF prioritize_response(job_id, direction) # 200 THEN download_queue
       ELSE IF direction = "up" THEN Swap(download_queue, i, i - 1)
       ELSE Swap(download_queue, i, i + 1)

prioritize_download(job_id, direction) ==
    /\ download_queue' = prioritize_outcome(job_id, direction)
    /\ UNCHANGED <<download_status, paused_jobs, limits, worker, pause_ok>>

\* -------------------------------------------------------------- get_queue
\* dict iteration order: the order of insertion, which is the order of the ids
RECURSIVE StatusItems(_)
StatusItems(ids) ==
    IF ids = {} THEN << >>
    ELSE LET j == CHOOSE x \in ids : \A y \in ids : x <= y
         IN <<j>> \o StatusItems(ids \ {j})

\* GET /queue from client_ip: the job_id fields of the 'jobs' list of the
\* response, in order
get_queue(client_ip) ==
    LET queued == SelectSeq(download_queue,
                     LAMBDA item : /\ Known(item[1])
                                   /\ download_status[item[1]].client_ip = client_ip)
        listed == SelectSeq(StatusItems(DOMAIN download_status),
                     LAMBDA j : /\ download_status[j].client_ip = client_ip
                                /\ download_status[j].status \in
                                     {"downloading", "completed", "failed", "paused"})
    IN [i \in 1..Len(queued) |-> queued[i][1]] \o listed

\* ------------------------------------------------------------- get_status
\* GET /status/<job_id>: the response code and its queue_position field
\* (None when the response has no such field).  The list comprehension unpacks
\* every entry of download_queue into three names; the ValueError of an entry
\* of another length, and the IndexError of an empty result, end in the bare
\* `except`, which reports 0.
get_status(job_id) ==
    IF ~Known(job_id) THEN [code |-> 404, queue_position |-> None]
    ELSE IF download_status[job_id].status # "queued"
    THEN [code |-> 200, queue_position |-> None]
    ELSE [code |-> 200,
          queue_position |->
             IF /\ \A i \in 1..Len(download_queue) : Unpacks3(download_queue[i])
                /\ InQueue(download_queue, job_id)
             THEN Some(queue_index(download_queue, job_id))
             ELSE Some(0)]

\* ------------------------------------------------------ Extraction Engine
\* is_permanent / is_retryable of the `except yt_dlp.utils.DownloadError` handler
is_permanent(msg) ==
    \/ "private video" \in msg
    \/ "video unavailable" \in msg
    \/ "sign in to confirm your age" \in msg
    \/ "this video is not available" \in msg
    \/ ("sign in to confirm" \in msg /\ "bot" \in msg)

is_retryable(msg) ==
    \/ "failed to extract" \in msg
    \/ "player response" \in msg
    \/ "unable to extract" \in msg
    \/ "403" \in msg
    \/ "forbidden" \in msg
    \/ "http error 400" \in msg
    \/ "precondition check failed" \in msg

classify(msg) ==
    IF is_permanent(msg) THEN "permanent"
    ELSE IF is_retryable(msg) THEN "retryable"
    ELSE "other"

\* the user_error chosen after the persona loop
user_error(err) ==
    LET msg == IF err = None THEN {} ELSE err[1]
    IN IF "private video" \in msg \/ "video unavailable" \in msg
       THEN "This video is private or unavailable."
       ELSE IF "sign in to confirm your age" \in msg \/ "age-restricted" \in msg
       THEN "This video is age-restricted and cannot be downloaded."
       ELSE IF ("sign in to confirm" \in msg /\ "bot" \in msg)
               \/ ("cookies" \in msg /\ "bot" \in msg)
       THEN "YouTube is requiring verification for this video."
       ELSE IF "player response" \in msg
               \/ ("failed to extract" \in msg /\ "player" \in msg)
       THEN "YouTube temporarily blocked access to this video."
       ELSE IF "403" \in msg \/ "forbidden" \in msg
       THEN "Access denied."
       ELSE IF "network" \in msg \/ "connection" \in msg \/ "timeout" \in msg
       THEN "Network error occurred."
       ELSE "Download failed"

Min(a, b) == IF a < b THEN a ELSE b

\* -------------------------------------------------------- process_queue
Running == job.job_id
IsPaused(j) == j \in paused_jobs

\* `return` of download_video followed by `finally: processing = False`
Return ==
    /\ processing' = FALSE
    /\ wpc' = "poll"
    /\ job' = NoJob
    /\ idx' = 0
    /\ last_error' = None
    /\ err_class' = "none"

Goto(pc) == /\ wpc' = pc
            /\ UNCHANGED <<processing, job, idx, last_error, err_class>>

\* queue entry -> (jid, url, qual, client_ip), client_ip None for a 3-tuple
AsJob(item) ==
    [job_id |-> item[1], url |-> item[2], quality |-> item[3],
     client_ip |-> IF Len(item) = 3 THEN None ELSE Some(item[4])]

\* the claim block taking the last unpaused entry instead of the first
W_poll_last ==
    /\ wpc = "poll"
    /\ download_queue # << >> /\ ~processing
    /\ LET active_jobs == SelectSeq(download_queue, LAMBDA item : ~IsPaused(item[1]))
       IN /\ active_jobs # << >>
          /\ processing' = TRUE
          /\ job' = AsJob(active_jobs[Len(active_jobs)])
          /\ download_queue' = RemoveJob(download_queue, active_jobs[Len(active_jobs)][1])
    /\ wpc' = "check"
    /\ UNCHANGED <<download_status, paused_jobs, limits, idx, last_error, err_class,
                   pause_ok>>

\* the `with queue_lock` block at the top of the loop, when it claims a job
W_poll ==
    /\ wpc = "poll"
    /\ download_queue # << >> /\ ~processing
    /\ LET active_jobs == SelectSeq(download_queue, LAMBDA item : ~IsPaused(item[1]))
       IN /\ active_jobs # << >>
          /\ processing' = TRUE
          /\ job' = AsJob(active_jobs[1])
          /\ download_queue' = RemoveJob(download_queue, active_jobs[1][1])
    /\ wpc' = "check"
    /\ UNCHANGED <<download_status, paused_jobs, limits, idx, last_error, err_class,
                   pause_ok>>

\* "Double-check not paused before starting download"
W_check ==
    /\ wpc = "check"
    /\ IF IsPaused(Running)
       THEN /\ download_status' = SetStatus(download_status, Running, "paused")
            /\ Return
       ELSE /\ Goto("dv_enter")
            /\ UNCHANGED download_status
    /\ UNCHANGED <<download_queue, paused_jobs, limits, pause_ok>>

\* ------------------------------------------------------- download_video
\* ConcurrentDownloadTracker.__enter__
W_enter ==
    /\ wpc = "dv_enter"
    /\ concurrent_downloads' =
         IF job.client_ip # None
         THEN DictPut(concurrent_downloads, job.client_ip[1],
                      DictGet(concurrent_downloads, job.client_ip[1], 0) + 1)
         ELSE concurrent_downloads
    /\ Goto("dv_setup")
    /\ UNCHANGED <<registry, download_counts, fixed, pause_ok>>

\* the downloads-folder setup inside the tracker; it can fail
W_setup ==
    /\ wpc = "dv_setup"
    /\ \E ok \in Env.setup_ok :
         IF ok THEN /\ Goto("dv_exit_ok")
                    /\ UNCHANGED download_status
         ELSE /\ Goto("dv_exit_failed")
              /\ download_status' =
                   [download_status EXCEPT
                      ![Running].status = "failed",
                      ![Running].error =
                         IF job.client_ip = None
                         THEN Some("Cannot create downloads directory")
                         ELSE Some("Setup error")]
    /\ UNCHANGED <<download_queue, paused_jobs, limits, pause_ok>>

\* ConcurrentDownloadTracker.__exit__
W_exit ==
    /\ wpc \in {"dv_exit_ok", "dv_exit_failed"}
    /\ concurrent_downloads' =
         IF job.client_ip # None /\ job.client_ip[1] \in DOMAIN concurrent_downloads
         THEN [concurrent_downloads EXCEPT ![job.client_ip[1]] = IF @ > 0 THEN @ - 1 ELSE 0]
         ELSE concurrent_downloads
    /\ IF wpc = "dv_exit_ok" THEN Goto("dv_pausecheck") ELSE Return
    /\ UNCHANGED <<registry, download_counts, fixed, pause_ok>>

\* "Check if paused before starting"
W_pausecheck ==
    /\ wpc = "dv_pausecheck"
    /\ IF IsPaused(Running)
       THEN /\ download_status' = SetStatus(download_status, Running, "paused")
            /\ Return
       ELSE /\ Goto("dv_start")
            /\ UNCHANGED download_status
    /\ UNCHANGED <<download_queue, paused_jobs, limits, pause_ok>>

\* the block that sets status 'downloading'
W_start ==
    /\ wpc = "dv_start"
    /\ IF ~IsPaused(Running)
       THEN /\ download_status' = SetStatus(download_status, Running, "downloading")
            /\ wpc' = "loop"
            /\ idx' = 1
            /\ last_error' = None
            /\ UNCHANGED <<processing, job, err_class>>
       ELSE /\ download_status' = SetStatus(download_status, Running, "paused")
            /\ Return
    /\ UNCHANGED <<download_queue, paused_jobs, limits, pause_ok>>

\* top of `for idx, client in enumerate(client_priority)`: the pause check,
\* then a new ProgressHook and the call of extract_info
W_loop ==
    /\ wpc = "loop"
    /\ IF IsPaused(Running)
       THEN /\ download_status' = SetStatus(download_status, Running, "paused")
            /\ Return
       ELSE /\ wpc' = "extract"
            /\ err_class' = "none"
            /\ UNCHANGED <<download_status, processing, job, idx, last_error>>
    /\ UNCHANGED <<download_queue, paused_jobs, limits, pause_ok>>

\* `continue`: the next persona, or the end of the loop
Continue ==
    /\ IF idx < Len(client_priority)
       THEN wpc' = "loop" /\ idx' = idx + 1
       ELSE wpc' = "all_failed" /\ UNCHANGED idx

\* faulty variant of the DownloadError handler: no `break` on a permanent
\* error, the loop goes on to the next persona
on_DownloadError_no_break(msg) ==
    /\ last_error' = Some(msg)
    /\ err_class' = classify(msg)
    /\ wpc' = "backoff"
    /\ UNCHANGED <<processing, job, idx>>

\* `except yt_dlp.utils.DownloadError as e`: break on a permanent error, else
\* sleep before the next persona
on_DownloadError(msg) ==
    /\ last_error' = Some(msg)
    /\ err_class' = classify(msg)
    /\ IF is_permanent(msg)
       THEN wpc' = "all_failed"
       ELSE wpc' = "backoff"
    /\ UNCHANGED <<processing, job, idx>>

\* `except Exception as e`: continue at once
on_Exception(msg) ==
    /\ last_error' = Some(msg)
    /\ Continue
    /\ UNCHANGED <<processing, job, err_class>>

\* process_queue's handler without its `finally`: the flag stays set
process_queue_except_no_finally(msg) ==
    /\ download_status' =
         IF IsPaused(Running) THEN download_status
         ELSE [download_status EXCEPT ![Running].status = "failed",
                                      ![Running].error = Some(msg)]
    /\ wpc' = "poll"
    /\ UNCHANGED <<processing, job, idx, last_error, err_class>>

\* `except Exception as e` and `finally` of process_queue, for the exception
\* with str(e) = msg that left download_video
process_queue_except(msg) ==
    /\ download_status' =
         IF IsPaused(Running) THEN download_status
         ELSE [download_status EXCEPT ![Running].status = "failed",
                                      ![Running].error = Some(msg)]
    /\ Return

\* the print call of download_video's `except Exception` handler raises: the
\* error leaves download_video
print_raises ==
    /\ Env.other_exceptions # {}
    /\ \E msg \in Env.print_errors : process_queue_except(msg)

\* time.sleep(...) of the handler is over
W_backoff ==
    /\ wpc = "backoff"
    /\ Continue
    /\ UNCHANGED <<registry, limits, processing, job, last_error, err_class, pause_ok>>

\* extract_info raises
W_extract_fails ==
    /\ wpc = "extract"
    /\ \/ /\ \/ \E msg \in Env.download_errors : on_DownloadError(msg)
             \/ \E msg \in Env.other_exceptions : on_Exception(msg)
          /\ UNCHANGED download_status
       \/ print_raises
    /\ UNCHANGED <<download_queue, paused_jobs, limits, pause_ok>>

\* the post-metadata block alone, as if the size check were not there
extract_ok_no_size_check(file_size) ==
    IF IsPaused(Running)
    THEN /\ download_status' = SetStatus(download_status, Running, "paused")
         /\ Return
    ELSE /\ download_status' = [download_status EXCEPT ![Running].progress = 10]
         /\ Goto("download")

\* extract_info returned info with the size estimate file_size (in GB): the
\* size check and the post-metadata block
extract_ok(file_size) ==
    IF file_size > MAX_FILE_SIZE_GB
    THEN /\ download_status' =
              [download_status EXCEPT ![Running].status = "failed",
                                      ![Running].error = Some("Video file is too large")]
         /\ Return
    ELSE IF IsPaused(Running)
    THEN /\ download_status' = SetStatus(download_status, Running, "paused")
         /\ Return
    ELSE /\ download_status' = [download_status EXCEPT ![Running].progress = 10]
         /\ Goto("download")

W_extract_ok ==
    /\ wpc = "extract"
    /\ \E file_size \in Env.file_sizes : extract_ok(file_size)
    /\ UNCHANGED <<download_queue, paused_jobs, limits, pause_ok>>

\* ProgressHook.hook(d), called by yt-dlp during ydl.download.  Every
\* 'downloading' callback of the model carries total_bytes and
\* downloaded_bytes, so the values the hook object stores between callbacks
\* are never read and are not part of the state.
hook_progress(d) ==
    IF d.total_bytes > 0 THEN Min(99, (d.downloaded_bytes * 100) \div d.total_bytes)
    ELSE IF d.speed # 0 THEN Min(50, d.downloaded_bytes \div 1000000)
    ELSE Min(10, d.downloaded_bytes \div 5000000)

hook(job_id, d) ==
    IF ~Known(job_id) THEN UNCHANGED download_status
    ELSE IF d.status = "downloading"
    THEN download_status' =
           [download_status EXCEPT ![job_id].progress = hook_progress(d),
                                   ![job_id].status = "downloading"]
    ELSE download_status' =
           [download_status EXCEPT ![job_id].progress = 99,
                                   ![job_id].status = "downloading"]

W_hook ==
    /\ wpc = "download"
    /\ \E d \in Env.hook_events : hook(Running, d)
    /\ UNCHANGED <<download_queue, paused_jobs, limits, worker, pause_ok>>

\* ydl.download raises
W_download_fails ==
    /\ wpc = "download"
    /\ \/ /\ \/ \E msg \in Env.download_errors : on_DownloadError(msg)
             \/ \E msg \in Env.other_exceptions : on_Exception(msg)
          /\ UNCHANGED download_status
       \/ print_raises
    /\ UNCHANGED <<download_queue, paused_jobs, limits, pause_ok>>

\* ydl.download returns: "Check if paused after download completes"
W_download_ok ==
    /\ wpc = "download"
    /\ IF IsPaused(Running)
       THEN /\ download_status' = SetStatus(download_status, Running, "paused")
            /\ Return
       ELSE /\ Goto("find")
            /\ UNCHANGED download_status
    /\ UNCHANGED <<download_queue, paused_jobs, limits, pause_ok>>

\* download_history.append(history_entry) without the pop(0) that follows it
history_append_no_cap(history_entry) ==
    download_history' = Append(download_history, history_entry)

\* `with history_lock`: download_history.append(history_entry), then pop(0)
\* when the list is longer than MAX_HISTORY_SIZE
history_append(history_entry) ==
    download_history' =
        LET appended == Append(download_history, history_entry)
        IN IF Len(appended) > MAX_HISTORY_SIZE THEN Tail(appended) ELSE appended

\* the file lookup followed by the completed block and the history block, as
\* if the actual-size check were not there
W_find_no_size_check ==
    /\ wpc = "find"
    /\ \E actual_size \in Env.file_sizes :
         /\ download_status' =
              [download_status EXCEPT ![Running].status = "completed",
                                      ![Running].progress = 100]
         /\ history_append([job_id |-> Running, status |-> "completed",
                             file_size |-> Some(actual_size)])
         /\ Return
    /\ UNCHANGED <<download_queue, paused_jobs, download_counts, concurrent_downloads,
                   now, env, handlers, queue_lock, lpc, files, pause_ok>>

\* _find_downloaded_file, the actual-size check, and the blocks that mark the
\* job completed and add it to the history
W_find ==
    /\ wpc = "find"
    /\ \/ \* no file: raise Exception('Download completed but file not found')
          /\ Env.file_lost
          /\ \/ on_Exception(MsgPlain) /\ UNCHANGED download_status
             \/ \E msg \in Env.print_errors : process_queue_except(msg)
          /\ UNCHANGED download_history
       \/ \E actual_size \in Env.file_sizes :
            /\ IF actual_size > MAX_FILE_SIZE_GB
               THEN /\ download_status' =
                         [download_status EXCEPT
                            ![Running].status = "failed",
                            ![Running].error = Some("Downloaded file is too large")]
                    /\ UNCHANGED download_history
               ELSE /\ download_status' =
                         [download_status EXCEPT ![Running].status = "completed",
                                                 ![Running].progress = 100]
                    /\ history_append([job_id |-> Running, status |-> "completed",
                                        file_size |-> Some(actual_size)])
            /\ Return
    /\ UNCHANGED <<download_queue, paused_jobs, download_counts, concurrent_downloads,
                   now, env, handlers, queue_lock, lpc, files, pause_ok>>

\* "All clients failed": the block that marks the job failed and the block
\* that adds it to the history
W_all_failed ==
    /\ wpc = "all_failed"
    /\ download_status' =
         [download_status EXCEPT ![Running].status = "failed",
                                 ![Running].error = Some(user_error(last_error))]
    /\ history_append([job_id |-> Running, status |-> "failed", file_size |-> None])
    /\ Return
    /\ UNCHANGED <<download_queue, paused_jobs, download_counts, concurrent_downloads,
                   now, env, handlers, queue_lock, lpc, files, pause_ok>>

\* ------------------------------------------------------ cleanup_old_files
\* files_to_check after the sort: the files `names` of fs by st_mtime, oldest
\* first (list.sort is stable, so files of one mtime stay in walk order)
RECURSIVE files_to_check(_, _)
files_to_check(fs, names) ==
    IF names = {} THEN << >>
    ELSE LET f == CHOOSE x \in names :
                    \A y \in names : \/ fs[x].mtime < fs[y].mtime
                                     \/ fs[x].mtime = fs[y].mtime /\ x <= y
         IN <<f>> \o files_to_check(fs, names \ {f})

\* "Delete files older than max_age": the names left and total_size after the
\* loop over `order`; current_time is one unit after the newest mtime
RECURSIVE delete_old(_, _, _, _)
delete_old(fs, order, kept, total_size) ==
    IF order = << >> THEN [kept |-> kept, total_size |-> total_size]
    ELSE LET f == Head(order)
         IN IF (MaxFiles + 1) - fs[f].mtime > FILE_MAX_AGE_HOURS /\ ~fs[f].locked
            THEN delete_old(fs, Tail(order), kept \ {f}, total_size - fs[f].size)
            ELSE delete_old(fs, Tail(order), kept, total_size)

\* the second loop stopping only below the budget
RECURSIVE delete_oldest_below(_, _, _, _)
delete_oldest_below(fs, order, kept, total_size) ==
    IF order = << >> \/ total_size < MAX_STORAGE_GB
    THEN [kept |-> kept, total_size |-> total_size]
    ELSE LET f == Head(order)
         IN IF f \in kept /\ ~fs[f].locked
            THEN delete_oldest_below(fs, Tail(order), kept \ {f}, total_size - fs[f].size)
            ELSE delete_oldest_below(fs, Tail(order), kept, total_size)

\* "If still over storage limit, delete oldest files"
RECURSIVE delete_oldest(_, _, _, _)
delete_oldest(fs, order, kept, total_size) ==
    IF order = << >> \/ total_size <= MAX_STORAGE_GB
    THEN [kept |-> kept, total_size |-> total_size]
    ELSE LET f == Head(order)
         IN IF f \in kept /\ ~fs[f].locked
            THEN delete_oldest(fs, Tail(order), kept \ {f}, total_size - fs[f].size)
            ELSE delete_oldest(fs, Tail(order), kept, total_size)

RECURSIVE SumSize(_, _)
SumSize(fs, order) ==
    IF order = << >> THEN 0 ELSE fs[Head(order)].size + SumSize(fs, Tail(order))

\* cleanup_old_files() on the directory fs: the names of the files left and
\* the final total_size
cleanup_result(fs) ==
    LET \* the collecting walk skips the .part files
        order == files_to_check(fs, {f \in DOMAIN fs : ~fs[f].part})
        aged == delete_old(fs, order, DOMAIN fs, SumSize(fs, order))
    IN delete_oldest(fs, order, aged.kept, aged.total_size)

cleanup_old_files ==
    /\ files' = [f \in cleanup_result(files).kept |-> files[f]]
    /\ UNCHANGED <<registry, download_counts, concurrent_downloads, now, env, handlers,
                   download_history, queue_lock, lpc, worker, pause_ok>>

\* ------------------------------------------------------------- queue_lock
\* What a thread does with queue_lock, in program order: "acquire" and
\* "release" are the entry and the exit of a `with queue_lock` block, "call"
\* is an Extraction Engine call or a sleep.  The worker's list follows one
\* turn of process_queue's loop through download_video for a job whose first
\* persona raises and whose second persona succeeds, with one progress
\* callback; the branches left out end in the same blocks.
\* the worker with the loop-top block of download_video held over extract_info
lock_ops_held_over_extract(t) ==
    IF t = "process_queue"
    THEN <<"acquire", "release", "acquire", "release", "acquire", "release",
           "acquire", "release", "acquire", "call", "release">>
    ELSE <<"acquire", "release">>

lock_ops(t) ==
    CASE t = "process_queue" ->
              <<"acquire", "release">>         \* 852-875 claim block
           \o <<"acquire", "release">>         \* 881-885 double check
           \o <<"acquire", "release">>         \* 543-547 pause check
           \o <<"acquire", "release">>         \* 549-567 start block
           \o <<"acquire", "release">>         \* 576-580 pause check at the loop top
           \o <<"call">>                       \* 630 extract_info, raises
           \o <<"call">>                       \* 771-778 time.sleep of the handler
           \o <<"acquire", "release">>         \* 576-580
           \o <<"call">>                       \* 630 extract_info
           \o <<"acquire", "release">>         \* 655-666 post-metadata block
           \o <<"call">>                       \* 671 ydl.download, up to a progress callback
           \o <<"acquire", "release">>         \* 475-482 ProgressHook.hook
           \o <<"call">>                       \* 671 ydl.download, the rest
           \o <<"acquire", "release">>         \* 674-677 pause check after the transfer
           \o <<"acquire", "release">>         \* 703-709 completed block
           \o <<"call">>                       \* 913 time.sleep(0.1)
      [] t = "extract_video_title" ->
              <<"call">>                       \* 1190 extract_info
           \o <<"acquire", "release">>         \* 1203-1207 title block
      [] t = "pause_download" -> <<"acquire", "release">>   \* 1477-1496
      [] t = "get_status" -> <<"acquire", "release">>       \* 1459-1471

\* the thread's next operation; after its last one the thread starts over (the
\* worker's `while True`, the next request, the next title-fetch thread)
lock_op(t) == lock_ops(t)[lpc[t]]

\* entering a `with queue_lock` block: blocks while another thread holds it
L_acquire(t) ==
    /\ lock_op(t) = "acquire"
    /\ queue_lock = None
    /\ queue_lock' = Some(t)
    /\ lpc' = [lpc EXCEPT ![t] = (@ % Len(lock_ops(t))) + 1]
    /\ UNCHANGED <<registry, download_counts, concurrent_downloads, now, env, handlers,
                   download_history, files, worker, pause_ok>>

\* leaving the block
L_release(t) ==
    /\ lock_op(t) = "release"
    /\ queue_lock' = IF queue_lock = Some(t) THEN None ELSE queue_lock
    /\ lpc' = [lpc EXCEPT ![t] = (@ % Len(lock_ops(t))) + 1]
    /\ UNCHANGED <<registry, download_counts, concurrent_downloads, now, env, handlers,
                   download_history, files, worker, pause_ok>>

\* the Extraction Engine call or the sleep returns
L_call(t) ==
    /\ lock_op(t) = "call"
    /\ lpc' = [lpc EXCEPT ![t] = (@ % Len(lock_ops(t))) + 1]
    /\ UNCHANGED <<registry, download_counts, concurrent_downloads, now, env, handlers,
                   download_history, queue_lock, files, worker, pause_ok>>

\* ------------------------------------------------------------------- Next
Pause == \E j \in JobIds : pause_download(j)
Resume == \E j \in JobIds : resume_download(j)
PauseAll == pause_all_downloads
ResumeAll == resume_all_downloads
Prioritize == \E j \in JobIds, d \in Directions : prioritize_download(j, d)

Next ==
    \/ SubmitSingle
    \/ SubmitPlaylist
    \/ Pause
    \/ Resume
    \/ PauseAll
    \/ ResumeAll
    \/ Prioritize
    \/ W_poll
    \/ W_check
    \/ W_enter
    \/ W_setup
    \/ W_exit
    \/ W_pausecheck
    \/ W_start
    \/ W_loop
    \/ W_backoff
    \/ W_extract_fails
    \/ W_extract_ok
    \/ W_hook
    \/ W_download_fails
    \/ W_download_ok
    \/ W_find
    \/ W_all_failed

Init == Start("registry")
Spec == Init /\ [][Next]_vars

InitEngine == Start("engine")
SpecEngine == InitEngine /\ [][Next]_vars

InitUrls == Start("urls")
SpecUrls == InitUrls /\ [][Next]_vars

\* the worker thread with the requests POST /download and POST /pause
NextWorker ==
    \/ SubmitSingle
    \/ Pause
    \/ Resume
    \/ W_poll
    \/ W_check
    \/ W_enter
    \/ W_setup
    \/ W_exit
    \/ W_pausecheck
    \/ W_start
    \/ W_loop
    \/ W_backoff
    \/ W_extract_fails
    \/ W_extract_ok
    \/ W_hook
    \/ W_download_fails
    \/ W_download_ok
    \/ W_find
    \/ W_all_failed
InitWorker == Start("worker")
SpecWorker == InitWorker /\ [][NextWorker]_vars

\* a step of the worker thread that is not a callback from inside
\* ydl.download: the thread runs on, and the Extraction Engine call or the
\* sleep it is in returns
process_queue_runs ==
    \/ W_poll \/ W_check \/ W_enter \/ W_setup \/ W_exit \/ W_pausecheck \/ W_start
    \/ W_loop \/ W_backoff \/ W_extract_fails \/ W_extract_ok
    \/ W_download_fails \/ W_download_ok \/ W_find \/ W_all_failed

\* SpecWorker with the worker thread (daemon thread started at import,
\* `while True`) scheduled fairly; the requests are under no obligation
SpecFair == InitWorker /\ [][NextWorker]_vars /\ WF_vars(process_queue_runs)

\* the worker thread with the requests POST /download, and a history log that
\* keeps entries
NextHistory ==
    \/ SubmitSingle
    \/ W_poll
    \/ W_check
    \/ W_enter
    \/ W_setup
    \/ W_exit
    \/ W_pausecheck
    \/ W_start
    \/ W_loop
    \/ W_backoff
    \/ W_extract_fails
    \/ W_extract_ok
    \/ W_hook
    \/ W_download_fails
    \/ W_download_ok
    \/ W_find
    \/ W_all_failed
InitHistory == Start("history")
SpecHistory == InitHistory /\ [][NextHistory]_vars

\* time.time() moves on by half a counting window
Tick ==
    /\ now < MaxTime
    /\ now' = now + 1
    /\ UNCHANGED <<registry, download_counts, concurrent_downloads, env, handlers,
                   download_history, queue_lock, lpc, files, worker, pause_ok>>

\* POST /download requests of one client, the worker, and the clock
NextRate ==
    \/ SubmitSingle
    \/ SubmitPlaylist
    \/ Tick
    \/ W_poll
    \/ W_check
InitRate == Start("rate")
SpecRate == InitRate /\ [][NextRate]_vars

\* a cleanup run on every directory of MaxFiles files
SpecCleanup == Start("cleanup") /\ [][cleanup_old_files]_vars

\* the threads' use of queue_lock.  A thread that waits for the lock gets it
\* if the lock is free again and again, and a thread inside a block leaves
\* it; nothing makes an Extraction Engine call or a sleep return.
NextLock ==
    \/ \E t \in Threads : L_acquire(t)
    \/ \E t \in Threads : L_release(t)
    \/ \E t \in Threads : L_call(t)
SpecLock ==
    /\ Init
    /\ [][NextLock]_vars
    /\ \A t \in Threads : SF_vars(L_acquire(t)) /\ WF_vars(L_release(t))

\* concurrent POST /download requests, lock block by lock block, and POST
\* /prioritize requests on what they queued
NextSubmit ==
    \/ \E h \in 1..MaxHandlers : H_check(h) \/ H_pl_check(h) \/ H_count(h) \/ H_append(h)
    \/ Prioritize
InitSubmit == Start("submit")
SpecSubmit == InitSubmit /\ [][NextSubmit]_vars

\* ================================================================ properties
\* C1: no job id is both in download_queue and in paused_jobs, in any state
\* reached by submit, pause, resume, pause_all, resume_all, prioritize and
\* worker steps.
C1_QueueAndPausedDisjoint ==
    \A j \in DOMAIN download_status :
        ~(InQueue(download_queue, j) /\ j \in paused_jobs)

\* C2: after POST /pause/<job_id> returned success, the worker neither claims
\* the job nor sets it to 'downloading' until a resume or resume_all of it.
\* A job of paused_jobs is never claimed (the filter of W_poll) and leaves the
\* set only by a resume; pause_ok holds the other jobs whose pause succeeded.
C2_PausedJobNotClaimed ==
    [][/\ W_poll => job'.job_id \notin pause_ok
       /\ W_start => ~(Running \in pause_ok
                       /\ download_status'[Running].status = "downloading")]_vars

\* C3: a successful resume(job_id) leaves job_id as the last element of
\* download_queue, in it exactly once; and download_queue never holds one job
\* id twice.
Occurrences(q, j) == Cardinality({i \in 1..Len(q) : q[i][1] = j})

C3_ResumeAppendsOnce ==
    [][/\ \A j \in JobIds :
            (resume_response(j) = 200 /\ resume_download(j))
            => /\ download_queue' # << >>
               /\ download_queue'[Len(download_queue')][1] = j
               /\ Occurrences(download_queue', j) = 1
       /\ \A j \in JobIds : Occurrences(download_queue', j) <= 1]_vars

\* C4: between two consecutive states in which a job is 'downloading', its
\* progress does not decrease.
C4_ProgressMonotone ==
    [][\A j \in DOMAIN download_status :
          (/\ download_status[j].status = "downloading"
           /\ download_status'[j].status = "downloading")
          => download_status'[j].progress >= download_status[j].progress]_vars

\* the states in which download_video is inside or just after its persona loop
InLoop == wpc \in {"loop", "extract", "download", "backoff", "find", "all_failed"}

\* every message an environment lets the engine raise
AllMsgs == {MsgPrivate, MsgForbidden, MsgNetwork, MsgPlain}
\* the user_error strings of the "All clients failed" block
ClassifiedErrors == {user_error(e) : e \in {None} \cup {Some(m) : m \in AllMsgs}}

\* C5: when the persona loop ends without a completed download and without
\* the job being found paused, the job is 'failed' with a non-null error, a
\* classified one when every persona failed; and a job is 'downloading' only
\* while the worker is inside download_video's loop for it.
C5_LoopEndsFailed ==
    [][/\ (InLoop /\ wpc' = "poll"
           /\ download_status'[Running].status \notin {"completed", "paused"})
          => /\ download_status'[Running].status = "failed"
             /\ download_status'[Running].error # None
       /\ W_all_failed
          => /\ download_status'[Running].status = "failed"
             /\ download_status'[Running].error # None
             /\ download_status'[Running].error[1] \in ClassifiedErrors
       /\ \A j \in DOMAIN download_status' :
             download_status'[j].status = "downloading"
             => (j = job'.job_id /\ wpc' \in {"loop", "extract", "download",
                                                "backoff", "find", "all_failed"})]_vars

\* C6: a permanent error on attempt k ends the loop (no attempt k+1..n) and
\* the job becomes 'failed'; after a retryable error on attempt k < n the
\* worker goes on to attempt k+1 unless the job is paused at the loop top.
C6_PersonaLoop ==
    [][/\ err_class' = "permanent" => (wpc' = "all_failed" /\ idx' = idx)
       /\ (err_class = "permanent" /\ wpc' # wpc)
          => /\ wpc = "all_failed" /\ wpc' = "poll"
             /\ download_status'[Running].status = "failed"
       /\ (err_class = "retryable" /\ wpc = "backoff" /\ wpc' # wpc)
          => IF idx < Len(client_priority)
             THEN wpc' = "loop" /\ idx' = idx + 1 /\ job' = job
             ELSE wpc' = "all_failed"
       /\ (wpc = "loop" /\ wpc' # wpc)
          => IF IsPaused(Running)
             THEN wpc' = "poll"
             ELSE wpc' = "extract" /\ idx' = idx /\ job' = job]_vars

\* a permanent error on the second attempt, after a retryable one on the first
C6_witness ==
    /\ err_class = "permanent"
    /\ idx = 2
    /\ wpc = "all_failed"

\* C7: every job was created for a URL validate_youtube_url accepts: the url
\* of every download_status entry and of every download_queue entry is valid.
C7_OnlyValidUrls ==
    /\ \A j \in DOMAIN download_status :
          validate_youtube_url(download_status[j].url).is_valid
    /\ \A i \in 1..Len(download_queue) :
          validate_youtube_url(download_queue[i][2]).is_valid

\* C8: a status that is 'completed' or 'failed' changes only in a step that
\* is a resume of that job.
C8_TerminalStays ==
    [][\A j \in DOMAIN download_status :
          (/\ download_status[j].status \in Terminal
           /\ download_status'[j].status # download_status[j].status)
          => (resume_download(j) \/ resume_all_downloads)]_vars

\* C9: POST /pause/<job_id> for a job that is 'queued' or 'downloading'
\* answers success.
C9_PauseSucceeds ==
    \A j \in DOMAIN download_status :
        download_status[j].status \in {"queued", "downloading"}
        => pause_response(j) = 200

\* C10: POST /resume/<job_id> for a job that is 'completed' or 'failed'
\* answers an error.
C10_ResumeRejectsTerminal ==
    \A j \in DOMAIN download_status :
        download_status[j].status \in Terminal => resume_response(j) # 200

\* C11: pause and resume keep a job's progress.  A 'downloading' job is paused
\* by POST /pause (success, status 'paused', out of download_queue, progress
\* kept); a resume that succeeds for a job outside download_queue leaves it
\* 'queued', last in download_queue, progress kept.
C11_PauseResumeKeepProgress ==
    /\ [](\A j \in DOMAIN download_status :
            download_status[j].status = "downloading" => pause_response(j) = 200)
    /\ [][\A j \in DOMAIN download_status :
            /\ (download_status[j].status = "downloading" /\ pause_download(j))
               => /\ download_status'[j].status = "paused"
                  /\ ~InQueue(download_queue', j)
                  /\ download_status'[j].progress = download_status[j].progress
            /\ (resume_response(j) = 200 /\ ~InQueue(download_queue, j)
                /\ resume_download(j))
               => /\ download_status'[j].status = "queued"
                  /\ download_queue'[Len(download_queue')][1] = j
                  /\ download_status'[j].progress = download_status[j].progress]_vars

\* the progress half of C11 alone: no pause or resume step changes a progress
C11_ProgressFrame ==
    [][\A j \in DOMAIN download_status :
          (\E k \in JobIds : pause_download(k) \/ resume_download(k))
          => download_status'[j].progress = download_status[j].progress]_vars

\* the clients whose count for the running window has reached the limit
AtLimit ==
    {ip \in DOMAIN download_counts :
        /\ now < download_counts[ip].reset_time
        /\ download_counts[ip].count >= MAX_DOWNLOADS_PER_HOUR}
AllSubmits == {<<FALSE, << >> >>} \cup {<<TRUE, vs>> : vs \in PlaylistInputs}

\* C12: for a client whose count of the running window has reached
\* MAX_DOWNLOADS_PER_HOUR, every POST /download with a url that passes
\* validation (single or playlist) is answered 429 with no job id, and leaves
\* download_queue, download_status and download_counts as they were
\* (paused_jobs is not among the things add_to_queue writes).
C12_RateLimitRejects ==
    \A ip \in AtLimit, raw_url \in Env.submit_urls, quality \in Qualities,
       s \in AllSubmits :
        add_to_queue_response(ip, raw_url) # 400
        => /\ add_to_queue_response(ip, raw_url) = 429
           /\ LET r == add_to_queue_outcome(ip, raw_url, quality, s[1], s[2])
              IN /\ r.code = 429
                 /\ r.job_ids = << >>
                 /\ r.q = download_queue
                 /\ r.st = download_status
                 /\ r.cnt = download_counts

\* a client at the limit, with jobs of theirs in the registry, whose next
\* valid POST /download is answered 429
C12_witness ==
    \E ip \in AtLimit, raw_url \in Env.submit_urls :
        /\ add_to_queue_response(ip, raw_url) = 429
        /\ Cardinality({j \in DOMAIN download_status :
                          download_status[j].client_ip = ip}) = MAX_DOWNLOADS_PER_HOUR
        /\ download_queue # << >>

Accepted(ip) == {j \in DOMAIN download_status : download_status[j].client_ip = ip}

\* C13: inside one counting window (the clock does not pass reset_time) no
\* client has more accepted submissions (jobs) than MAX_DOWNLOADS_PER_HOUR,
\* however the request threads interleave.
C13_AcceptedWithinLimit ==
    \A ip \in Env.owners : Cardinality(Accepted(ip)) <= MAX_DOWNLOADS_PER_HOUR

\* C14: when extract_info returns a size estimate above the limit, that step
\* leaves the job 'failed' with the size-limit error and download_video
\* returns at once: the worker is back at its poll with the persona index it
\* had, so ydl.download is not called and no later persona is tried.
C14_OversizeFails ==
    [][\A file_size \in Env.file_sizes :
          (file_size > MAX_FILE_SIZE_GB /\ wpc = "extract" /\ extract_ok(file_size))
          => /\ download_status'[Running].status = "failed"
             /\ download_status'[Running].error = Some("Video file is too large")
             /\ wpc' = "poll"
             /\ processing' = FALSE
             /\ \A j \in DOMAIN download_status \ {Running} :
                   download_status'[j] = download_status[j]]_vars

\* a job failed for its size, the worker back at its poll
C14_witness ==
    \E j \in DOMAIN download_status :
        /\ download_status[j].status = "failed"
        /\ download_status[j].error = Some("Video file is too large")
        /\ download_status[j].progress = 0
        /\ wpc = "poll"

\* index of the first entry of q for job j
Pos(q, j) == CHOOSE i \in 1..Len(q) : q[i][1] = j /\ \A k \in 1..(i - 1) : q[k][1] # j

\* C15: the worker's claim takes the first entry of download_queue whose id
\* is not in paused_jobs (every entry before it is a paused job's); and two
\* unpaused jobs that stay in download_queue keep their relative order in
\* every step but a prioritize of one of them -- so the one ahead is claimed
\* first.
C15_ClaimsFirstUnpaused ==
    [][/\ W_poll
          => /\ InQueue(download_queue, job'.job_id)
             /\ job'.job_id \notin paused_jobs
             /\ \A k \in 1..(Pos(download_queue, job'.job_id) - 1) :
                   download_queue[k][1] \in paused_jobs
             /\ ~InQueue(download_queue', job'.job_id)
       /\ \A a, b \in QueueIds(download_queue) \cap QueueIds(download_queue') :
             (/\ a \notin paused_jobs \cup paused_jobs'
              /\ b \notin paused_jobs \cup paused_jobs'
              /\ Pos(download_queue, a) < Pos(download_queue, b)
              /\ Pos(download_queue', a) > Pos(download_queue', b))
             => \E d \in Directions :
                   prioritize_download(a, d) \/ prioritize_download(b, d)]_vars

\* the worker has claimed job 1 from ahead of job 2, which is still pending
C15_witness ==
    /\ wpc = "check"
    /\ job.job_id = 1
    /\ download_queue # << >>
    /\ download_queue[1][1] = 2
    /\ paused_jobs = {}

AtEdge(j, d) ==
    \/ d = "up" /\ download_queue[1][1] = j
    \/ d = "down" /\ download_queue[Len(download_queue)][1] = j

\* C16: POST /prioritize of a queued job away from the edge exchanges its
\* entry with the one before (up) or after (down), and every other entry,
\* paused_jobs and download_status stay as they were; at the top for up, at
\* the bottom for down, for a job that is not in download_queue and for any
\* other direction the answer is an error (400 or 404) and download_queue is
\* left as it is.
C16_PrioritizeSwapsNeighbours ==
    /\ [](\A j \in JobIds \cup {0}, d \in Directions :
            (\/ ~InQueue(download_queue, j)
             \/ d \notin {"up", "down"}
             \/ AtEdge(j, d))
            => /\ prioritize_response(j, d) \in {400, 404}
               /\ prioritize_outcome(j, d) = download_queue)
    /\ [][\A j \in JobIds, d \in {"up", "down"} :
            (InQueue(download_queue, j) /\ ~AtEdge(j, d) /\ prioritize_download(j, d))
            => LET i == Pos(download_queue, j)
                   k == IF d = "up" THEN i - 1 ELSE i + 1
               IN /\ Len(download_queue') = Len(download_queue)
                  /\ download_queue'[k] = download_queue[i]
                  /\ download_queue'[i] = download_queue[k]
                  /\ \A n \in 1..Len(download_queue) \ {i, k} :
                        download_queue'[n] = download_queue[n]
                  /\ paused_jobs' = paused_jobs
                  /\ download_status' = download_status]_vars

\* three queued jobs, the second moved up past the first, the third in place
C16_witness ==
    /\ Len(download_queue) = 3
    /\ download_queue[1][1] = 2
    /\ download_queue[2][1] = 1
    /\ download_queue[3][1] = 3

Downloading == {j \in DOMAIN download_status : download_status[j].status = "downloading"}

\* C17: the worker runs one download_video call at a time -- it holds a
\* claimed job exactly while `processing` is set -- and in every state at most
\* one job has status 'downloading'.
C17_OneDownloading ==
    /\ Cardinality(Downloading) <= 1
    /\ processing <=> job # NoJob

WorkerStep ==
    \/ W_poll \/ W_check \/ W_enter \/ W_setup \/ W_exit \/ W_pausecheck \/ W_start
    \/ W_loop \/ W_backoff \/ W_extract_fails \/ W_extract_ok \/ W_hook
    \/ W_download_fails \/ W_download_ok \/ W_find \/ W_all_failed

\* C18: when an exception leaves download_video, process_queue marks the
\* claimed job 'failed' with str(e) unless the job is in paused_jobs (then
\* its record is left as it is), clears `processing` and is back at its
\* poll; the worker always has a next step while it holds a job, claims
\* whenever it polls with an unpaused entry queued, and `processing` is never
\* set while it polls.
C18_WorkerSurvives ==
    /\ [][\A msg \in Env.print_errors :
            (wpc \in {"extract", "download", "find"} /\ process_queue_except(msg))
            => /\ IF Running \in paused_jobs
                  THEN download_status' = download_status
                  ELSE /\ download_status'[job.job_id].status = "failed"
                       /\ download_status'[job.job_id].error = Some(msg)
               /\ processing' = FALSE
               /\ wpc' = "poll"]_vars
    /\ [](wpc = "poll" => ~processing)
    /\ [](wpc # "poll" => ENABLED WorkerStep)
    /\ []((wpc = "poll" /\ \E i \in 1..Len(download_queue) :
                               download_queue[i][1] \notin paused_jobs)
          => ENABLED W_poll)

\* a job failed by process_queue's handler, and the worker holding the job
\* it claimed after that
C18_witness ==
    \E j \in DOMAIN download_status :
        /\ download_status[j].status = "failed"
        /\ download_status[j].error = Some(MsgClosed)
        /\ wpc = "check"
        /\ job.job_id # j

\* a client that has submitted nothing
OtherClient == "10.0.0.9"
Listed(ip, j) == Cardinality({i \in 1..Len(get_queue(ip)) : get_queue(ip)[i] = j})

\* C20: in every state GET /queue from a client lists each job of that
\* client exactly once and no job of any other client.
C20_QueueListsOwnJobsOnce ==
    \A ip \in Env.owners \cup {OtherClient}, j \in DOMAIN download_status :
        Listed(ip, j) = IF download_status[j].client_ip = ip THEN 1 ELSE 0

\* the second half of C20 alone: GET /queue lists only the asking client's jobs
C20_OnlyOwnJobs ==
    \A ip \in Env.owners \cup {OtherClient}, j \in DOMAIN download_status :
        download_status[j].client_ip # ip => Listed(ip, j) = 0

\* a job listed twice by GET /queue
C20_ListedTwice ==
    \E ip \in Env.owners, j \in DOMAIN download_status : Listed(ip, j) = 2

\* C19: an accepted POST /download for one video answers with one job id that
\* no job had, creates that job 'queued' at progress 0, appends its entry
\* (job_id, url, quality, client_ip) as the last of download_queue, and leaves
\* the entries before it, paused_jobs and every other job as they were.
C19_SubmitAppendsOneJob ==
    [][\A ip \in Env.owners, raw_url \in Env.submit_urls, quality \in Qualities :
          (/\ add_to_queue_response(ip, raw_url) = 200
           /\ FreeIds # {}
           /\ add_to_queue(ip, raw_url, quality, FALSE, << >>))
          => LET ids == add_to_queue_outcome(ip, raw_url, quality, FALSE, << >>).job_ids
                 j == ids[1]
             IN /\ Len(ids) = 1
                /\ j \notin DOMAIN download_status
                /\ DOMAIN download_status' = DOMAIN download_status \cup {j}
                /\ download_status'[j].status = "queued"
                /\ download_status'[j].progress = 0
                /\ download_status'[j].client_ip = ip
                /\ Len(download_queue') = Len(download_queue) + 1
                /\ download_queue'[Len(download_queue')][1] = j
                /\ Len(download_queue'[Len(download_queue')]) = 4
                /\ SubSeq(download_queue', 1, Len(download_queue)) = download_queue
                /\ paused_jobs' = paused_jobs
                /\ \A k \in DOMAIN download_status :
                      download_status'[k] = download_status[k]]_vars

\* job 2 just submitted behind the queued job 1
C19_witness ==
    /\ Len(download_queue) = 2
    /\ download_queue[1][1] = 1
    /\ download_queue[2][1] = 2
    /\ Len(download_queue[2]) = 4
    /\ download_status[2].status = "queued"
    /\ download_status[2].progress = 0
    /\ download_status[1].status = "queued"

\* C21: normalization is idempotent -- for the url of every job whose url
\* validate_youtube_url accepts, the normalized url is accepted too and its
\* normalization is itself.
C21_NormalizeIdempotent ==
    \A j \in DOMAIN download_status :
        LET r == validate_youtube_url(download_status[j].url)
        IN r.is_valid
           => /\ validate_youtube_url(r.normalized_url).is_valid
              /\ normalize_youtube_url(r.normalized_url) = r.normalized_url

\* C22: the history log never holds more than MAX_HISTORY_SIZE entries, and
\* every step that changes it appends one entry at the end, dropping exactly
\* the oldest entry when the log was full and keeping the others in order.
C22_HistoryCapped ==
    /\ [](Len(download_history) <= MAX_HISTORY_SIZE)
    /\ [][download_history' # download_history
            => \E history_entry \in [job_id : JobIds, status : {"completed", "failed"},
                                     file_size : {None} \cup {Some(x) : x \in Env.file_sizes}] :
                 download_history' =
                    (IF Len(download_history) = MAX_HISTORY_SIZE
                     THEN Tail(download_history)
                     ELSE download_history) \o <<history_entry>>]_vars

\* a full log from which the entry of a completed job has been evicted
C22_witness ==
    /\ MAX_HISTORY_SIZE > 0
    /\ Len(download_history) = MAX_HISTORY_SIZE
    /\ \E j \in DOMAIN download_status :
         /\ download_status[j].status = "completed"
         /\ \A i \in DOMAIN download_history : download_history[i].job_id # j

\* C23: every step that takes a job to completed or to failed appends one
\* history entry for that job with the matching status.
C23_FinishAppendsHistory ==
    [][\A j \in DOMAIN download_status :
         /\ download_status'[j].status \in {"completed", "failed"}
         /\ download_status'[j].status # download_status[j].status
         => /\ download_history' # << >>
            /\ download_history'[Len(download_history')].job_id = j
            /\ download_history'[Len(download_history')].status = download_status'[j].status
            /\ \/ download_history' = Append(download_history, download_history'[Len(download_history')])
               \/ download_history' = Append(Tail(download_history), download_history'[Len(download_history')])
      ]_vars

\* C23 (part): the two finishing blocks that do write the history -- the block
\* that marks a job completed and the block after the persona loop -- append
\* the entry of the job they finish.
C23_LoopEndAppends ==
    [][(W_all_failed \/ (wpc = "find" /\ W_find /\ download_status'[Running].status = "completed"))
         => /\ download_history' # << >>
            /\ download_history'[Len(download_history')].job_id = Running
            /\ download_history'[Len(download_history')].status =
                  download_status'[Running].status
      ]_vars

\* C24: a job carries an error only while its status is failed.
C24_ErrorOnlyWhenFailed ==
    \A j \in DOMAIN download_status :
        download_status[j].error # None => download_status[j].status = "failed"

\* C25: for every owner and every interval of one counting window, at most
\* MAX_DOWNLOADS_PER_HOUR of the owner's jobs were accepted inside the interval.
C25_RollingCap ==
    \A o \in Env.owners, t \in 0..MaxTime :
        Cardinality({j \in DOMAIN download_status :
                        /\ download_status[j].client_ip = o
                        /\ download_status[j].added_at >= t
                        /\ download_status[j].added_at < t + RATE_WINDOW})
            <= MAX_DOWNLOADS_PER_HOUR

\* C25 (part): inside one fixed window of the counter -- from the creation or
\* the last reset of the owner's counter to its reset_time -- at most
\* MAX_DOWNLOADS_PER_HOUR jobs of the owner were accepted.
C25_FixedWindowCap ==
    \A o \in DOMAIN download_counts :
        Cardinality({j \in DOMAIN download_status :
                        /\ download_status[j].client_ip = o
                        /\ download_status[j].added_at >= download_counts[o].reset_time - RATE_WINDOW
                        /\ download_status[j].added_at < download_counts[o].reset_time})
            <= MAX_DOWNLOADS_PER_HOUR

\* C26: GET /status for a queued job that is in download_queue reports the
\* job's 1-based index in download_queue as queue_position.
C26_StatusQueuePosition ==
    \A j \in DOMAIN download_status :
        download_status[j].status = "queued" /\ InQueue(download_queue, j)
        => get_status(j).queue_position = Some(Pos(download_queue, j))

\* C26 (part): when every entry of download_queue is a 3-tuple (entries put
\* back by resume), the reported position is the index.
C26_PositionAmongTriples ==
    \A j \in DOMAIN download_status :
        /\ download_status[j].status = "queued"
        /\ InQueue(download_queue, j)
        /\ \A i \in 1..Len(download_queue) : Len(download_queue[i]) = 3
        => get_status(j).queue_position = Some(Pos(download_queue, j))

\* C27: when download_video returns for a job that is in paused_jobs, the
\* job's status is paused.
C27_PausedAtReturn ==
    [][wpc \notin {"poll", "check"} /\ wpc' = "poll" /\ IsPaused(Running)
         => download_status'[Running].status = "paused"]_vars

\* C27 (part): at the pause checks themselves -- before the start block, in
\* it, before each persona and after the transfer has returned -- a job in
\* paused_jobs is marked paused and download_video returns at once.
C27_PauseChecksReturn ==
    [][(W_pausecheck \/ W_start \/ W_loop \/ W_download_ok) /\ IsPaused(Running)
         => download_status'[Running].status = "paused" /\ wpc' = "poll"]_vars

\* C28: every job whose status is queued is in download_queue.
C28_QueuedJobsInList ==
    \A j \in DOMAIN download_status :
        download_status[j].status = "queued" => InQueue(download_queue, j)

\* C29: no thread holds queue_lock while it is inside an Extraction Engine
\* call or a sleep, and a request thread that waits for queue_lock gets it,
\* whether or not those calls ever return.
C29_NoLockOverEngineCalls ==
    /\ [](\A t \in Threads : lock_op(t) = "call" => queue_lock # Some(t))
    /\ \A t \in {"pause_download", "get_status"} :
         (lock_op(t) = "acquire") ~> (queue_lock = Some(t))

\* a request thread holds queue_lock while the worker is inside ydl.download
C29_witness ==
    /\ queue_lock = Some("pause_download")
    /\ lock_op("process_queue") = "call"
    /\ lpc["process_queue"] \in {18, 21}
    /\ lock_op("extract_video_title") = "call"

\* C30: in every step that leaves a job in paused_jobs, the job's status and
\* progress stay as they are; and a step changes a job's progress only if the
\* job's status is downloading before the step.
C30_PausedJobFrozen ==
    [][\A j \in DOMAIN download_status :
         /\ j \in paused_jobs /\ j \in paused_jobs'
            => /\ download_status'[j].status = download_status[j].status
               /\ download_status'[j].progress = download_status[j].progress
         /\ download_status'[j].progress # download_status[j].progress
            => download_status[j].status = "downloading"
      ]_vars

C32_PauseAllPausesEverything ==
    [][pause_all_downloads
         => IF pause_all_response = 200
            THEN \A j \in DOMAIN download_status :
                   /\ download_status[j].status \in {"queued", "downloading"}
                      => /\ j \in paused_jobs'
                         /\ download_status'[j].status = "paused"
                         /\ ~InQueue(download_queue', j)
                   /\ download_status[j].status \in {"completed", "failed"}
                      => download_status'[j] = download_status[j]
            ELSE /\ download_status' = download_status
                 /\ paused_jobs' = paused_jobs
                 /\ download_queue' = download_queue]_vars

\* C33: whatever POST /resume_all finds, it leaves paused_jobs empty and
\* every job that was in paused_jobs in download_queue exactly once with
\* status queued.
C33_ResumeAllRequeuesEverything ==
    \A order \in Orders(paused_jobs) :
        LET r == resume_all_loop(order, download_queue, download_status, paused_jobs)
        IN /\ r.paused = {}
           /\ \A j \in paused_jobs :
                /\ Cardinality({i \in 1..Len(r.q) : r.q[i][1] = j}) = 1
                /\ r.st[j].status = "queued"

\* C33 (part): a job in paused_jobs whose status is paused and that is not in
\* download_queue is put there once, with status queued and out of paused_jobs.
C33_PausedJobsRequeued ==
    \A order \in Orders(paused_jobs) :
        LET r == resume_all_loop(order, download_queue, download_status, paused_jobs)
        IN \A j \in paused_jobs :
             download_status[j].status = "paused" /\ ~InQueue(download_queue, j)
             => /\ j \notin r.paused
                /\ Cardinality({i \in 1..Len(r.q) : r.q[i][1] = j}) = 1
                /\ r.st[j].status = "queued"

\* the files a cleanup run of the directory `files` would remove
Deleted == DOMAIN files \ cleanup_result(files).kept
Old(f) == (MaxFiles + 1) - files[f].mtime > FILE_MAX_AGE_HOURS
Budgeted(S) ==
    SumSize(files, files_to_check(files, {f \in S : ~files[f].part})) <= MAX_STORAGE_GB

Claimed(j) == wpc # "poll" /\ job.job_id = j
Settled(j) == Known(j) /\ download_status[j].status \in {"paused", "completed", "failed"}

\* C35: with the worker thread scheduled fairly and every Extraction Engine
\* call returning, a job that is in download_queue and not in paused_jobs is
\* eventually claimed by the worker (unless it is paused first), and a job the
\* worker has claimed is eventually let go of by the worker with status
\* paused, completed or failed.
C35_ClaimedAndSettled ==
    \A j \in 1..MaxJobs :
        /\ (InQueue(download_queue, j) /\ j \notin paused_jobs)
              ~> (Claimed(j) \/ j \in paused_jobs)
        /\ Claimed(j) ~> (~Claimed(j) /\ Settled(j))

\* the first half of C35: a pending job that is not paused is eventually
\* claimed or paused
C35_PendingClaimed ==
    \A j \in 1..MaxJobs :
        (InQueue(download_queue, j) /\ j \notin paused_jobs)
           ~> (Claimed(j) \/ j \in paused_jobs)

\* without an exception leaving download_video, the worker lets go of a
\* claimed job only with status paused, completed or failed
C35_SettledAtReturn ==
    [][\A j \in 1..MaxJobs :
          (/\ Claimed(j) /\ ~Claimed(j)'
           /\ ~(\E msg \in Env.print_errors : process_queue_except(msg)))
             => Settled(j)']_vars

\* C36: in every reachable state every job in paused_jobs has status
\* 'paused'.
C36_PausedSetHasPausedStatus ==
    \A j \in paused_jobs : Known(j) /\ download_status[j].status = "paused"

\* C37: in every reachable state every job with an entry in download_queue
\* has status 'queued'.
C37_PendingJobsAreQueued ==
    \A i \in 1..Len(download_queue) :
        /\ Known(download_queue[i][1])
        /\ download_status[download_queue[i][1]].status = "queued"

\* a job that was resumed while its transfer was in flight is completed by
\* the worker while it has an entry in download_queue
C37_CompletedWhilePending ==
    \E i \in 1..Len(download_queue) :
        download_status[download_queue[i][1]].status = "completed"

\* C38: when resume_download(job_id) puts the job back into download_queue,
\* the new entry carries the client_ip recorded in the job's record at
\* submission, so the worker's claim block reads that owner from it.
C38_ResumeKeepsOwner ==
    [][\A j \in JobIds :
          (resume_download(j) /\ ~InQueue(download_queue, j) /\ InQueue(download_queue', j))
             => \A i \in 1..Len(download_queue') :
                   download_queue'[i][1] = j
                      => AsJob(download_queue'[i]).client_ip
                            = Some(download_status[j].client_ip)]_vars

\* the entries POST /download and POST /resume_all append carry the owner of
\* the job's record
C38_SubmittedEntriesCarryOwner ==
    \A i \in 1..Len(download_queue) :
        Len(download_queue[i]) = 4
           => download_queue[i][4] = download_status[download_queue[i][1]].client_ip

\* the worker runs a resumed job with no owner
C38_RunsWithoutOwner == wpc = "dv_enter" /\ job.client_ip = None

\* the number of ip's jobs the worker is running the persona loop for
InProgress(ip) ==
    IF InLoop /\ download_status[Running].client_ip = ip THEN 1 ELSE 0

\* C39: in every reachable state concurrent_downloads[X] is the number of
\* X's jobs whose persona loop is in progress (so at least 1 while one runs),
\* it is never negative, and it is back at its previous value when the worker
\* is out of download_video.
C39_CountsRunningDownloads ==
    \A ip \in Env.owners :
        /\ DictGet(concurrent_downloads, ip, 0) >= 0
        /\ wpc = "poll" => DictGet(concurrent_downloads, ip, 0) = 0
        /\ DictGet(concurrent_downloads, ip, 0) >= InProgress(ip)
        /\ InLoop => DictGet(concurrent_downloads, ip, 0) = InProgress(ip)

\* the counter is never negative, it is 0 whenever the worker is out of
\* download_video, and it is 1 exactly between __enter__ and __exit__ of the
\* tracker around the downloads-folder setup of an entry that carries an owner
C39_CountsSetupOnly ==
    \A ip \in Env.owners :
        DictGet(concurrent_downloads, ip, 0) =
            IF wpc \in {"dv_setup", "dv_exit_ok", "dv_exit_failed"} /\ job.client_ip = Some(ip)
            THEN 1 ELSE 0

\* C40: in every reachable state every job's progress is an integer from 0
\* to 100, and it is 100 only when the job's status is 'completed'.
C40_ProgressRange ==
    \A j \in DOMAIN download_status :
        /\ download_status[j].progress \in 0..100
        /\ download_status[j].progress = 100 => download_status[j].status = "completed"

\* every job's progress is an integer from 0 to 100, and a job that is
\* 'completed' has progress 100
C40_ProgressBounds ==
    \A j \in DOMAIN download_status :
        /\ download_status[j].progress \in 0..100
        /\ download_status[j].status = "completed" => download_status[j].progress = 100
====
